---- MODULE Spec2Model ----
(***************************************************************************)
(* Model of the invoice dashboard: the server actions of                   *)
(* app/lib/actions.ts (createInvoice, updateInvoice, deleteInvoice) over   *)
(* the invoices table, the debounced Search component that writes the      *)
(* search term into the URL, the invoices Page that reads the URL, and the *)
(* authorized callback of authConfig behind the middleware.                *)
(*                                                                         *)
(* A JavaScript string is a sequence of tokens (single characters, or a    *)
(* literal such as "pending" kept as one token).  A FormData entry is      *)
(* either null or a string.                                                *)
(***************************************************************************)
EXTENDS Integers, Sequences, FiniteSets, TLC

VARIABLES
    invoices,   \* the invoices table: id -> row
    req,        \* the invocations of the server actions
    now,        \* the clock, an index into Instants
    calls,      \* server action invocations so far, of each caller
    location,   \* the browser's URL: pathname and search parameters
    debounce,   \* the timer of useDebouncedCallback
    lastClick,  \* what the last run of handleClick computed and did
    fired,      \* runs of handleClick so far
    typed,      \* input events on the search field so far
    lastTyped,  \* the value of the last input event
    bursts,     \* input events that found no timer pending
    sinceTyped, \* milliseconds since the last input event, up to DelayMs
    visit,      \* the request the middleware last handled, and its redirects
    rendered    \* what the invoices Page last rendered

serverVars == <<invoices, req, now, calls>>
searchVars ==
    <<location, debounce, lastClick, fired, typed, lastTyped, bursts, sinceTyped>>
siteVars == <<visit, rendered>>
vars == <<serverVars, searchVars, siteVars>>

(***************************************************************************)
(* Bounds of the model.                                                    *)
(***************************************************************************)
\* the ids a caller passes to updateInvoice and deleteInvoice: 1..MaxInvoices
MaxInvoices == 2
\* invocations of the server actions by one caller in one behaviour
MaxCalls == 1
\* input events on the search field in one behaviour
MaxEvents == 3
\* redirects the browser follows for one request
MaxRedirects == 3
\* length of a search term
MaxTermLen == 2
\* the step of the clock the debounce timer runs on, in milliseconds
TickMs == 500
\* decimal places of an amount the model represents exactly
MaxDecimals == 3

(***************************************************************************)
(* Values.                                                                 *)
(***************************************************************************)
Null == [type |-> "null"]
Str(s) == [type |-> "string", chars |-> s]

RECURSIVE Pow10(_)
Pow10(n) == IF n = 0 THEN 1 ELSE 10 * Pow10(n - 1)

RECURSIVE Pow2(_)
Pow2(n) == IF n = 0 THEN 1 ELSE 2 * Pow2(n - 1)

\* amounts are kept in units of 1/Scale
Scale == Pow10(MaxDecimals)

Digits == {"0", "1", "2", "3", "4", "5", "6", "7", "8", "9"}

DigitVal(c) ==
    CASE c = "0" -> 0 [] c = "1" -> 1 [] c = "2" -> 2 [] c = "3" -> 3
      [] c = "4" -> 4 [] c = "5" -> 5 [] c = "6" -> 6 [] c = "7" -> 7
      [] c = "8" -> 8 [] c = "9" -> 9

IsDigits(s) == \A i \in 1..Len(s) : s[i] \in Digits

RECURSIVE IntVal(_)
IntVal(s) == IF s = <<>> THEN 0
             ELSE 10 * IntVal(SubSeq(s, 1, Len(s) - 1)) + DigitVal(s[Len(s)])

\* index of the first occurrence of token c in s, 0 when there is none
IndexOf(s, c) ==
    IF \E i \in 1..Len(s) : s[i] = c
    THEN CHOOSE i \in 1..Len(s) : s[i] = c /\ \A j \in 1..(i - 1) : s[j] # c
    ELSE 0

(***************************************************************************)
(* JavaScript numbers.  NaN, or a signed decimal value milli / Scale: the  *)
(* double nearest to that decimal.  err is what a floating-point operation *)
(* left the double away from that decimal, in units of 1 / (Scale * 2^e),  *)
(* e the operand's binary exponent (0: the double is the one nearest to    *)
(* the decimal).                                                           *)
(***************************************************************************)
NaN == [kind |-> "nan"]
Num(neg, milli) == [kind |-> "num", neg |-> neg, milli |-> milli, err |-> 0]

\* the fraction digits f (after the point) in units of 1/Scale
FracVal(f) == IntVal(f) * Pow10(MaxDecimals - Len(f))

\* an unsigned decimal literal: digits, digits. , digits.digits , .digits
UnsignedDecimal(s, neg) ==
    LET dot == IndexOf(s, ".")
        ip  == IF dot = 0 THEN s ELSE SubSeq(s, 1, dot - 1)
        fp  == IF dot = 0 THEN <<>> ELSE SubSeq(s, dot + 1, Len(s))
    IN  IF IsDigits(ip) /\ IsDigits(fp) /\ Len(ip) + Len(fp) > 0
           /\ Len(fp) <= MaxDecimals
        THEN Num(neg, IntVal(ip) * Scale + FracVal(fp))
        ELSE NaN

\* Number(x) as z.coerce.number() applies it to a FormData entry
ToNumber(x) ==
    IF x.type = "null" THEN Num(FALSE, 0)
    ELSE LET s == x.chars
         IN  IF s = <<>> THEN Num(FALSE, 0)
             ELSE IF s[1] = "-" THEN UnsignedDecimal(Tail(s), TRUE)
             ELSE IF s[1] = "+" THEN UnsignedDecimal(Tail(s), FALSE)
             ELSE UnsignedDecimal(s, FALSE)


(***************************************************************************)
(* amount * 100 in IEEE-754 double arithmetic, for amount = n / Scale > 0. *)
(* The double of n / Scale is m * 2^-e with m = round(n * 2^e / Scale) a   *)
(* 53-bit integer; 100 * m is then rounded to 53 bits again.  Both         *)
(* roundings are decided by residues, which stay small:                    *)
(*   m * Scale = n * 2^e + s   and   round(100 * m) = 100 * m + t,         *)
(* so the product is 100 * n / Scale + (100 * s + Scale * t) / (Scale*2^e).*)
(***************************************************************************)
\* bits of a double's significand
MantissaBits == 53

RECURSIVE Log2Floor(_, _)
Log2Floor(n, d) == IF n < 2 * d THEN 0 ELSE 1 + Log2Floor(n, 2 * d)

RECURSIVE Log2Below(_, _)
Log2Below(n, d) == IF 2 * n >= d THEN 1 ELSE 1 + Log2Below(2 * n, d)

\* k with 2^k <= n / Scale < 2^(k+1)
BinaryExponent(n) ==
    IF n >= Scale THEN Log2Floor(n, Scale) ELSE 0 - Log2Below(n, Scale)

\* x * 2^e modulo N
RECURSIVE DoubleMod(_, _, _)
DoubleMod(x, e, N) == IF e = 0 THEN x ELSE DoubleMod((2 * x) % N, e - 1, N)

\* round to nearest, ties to even: the step from residue rho (of modulus G)
RoundStep(rho, G, odd) ==
    IF 2 * rho > G \/ (2 * rho = G /\ odd) THEN G - rho ELSE 0 - rho

TimesHundredExact(n) ==
    LET k   == BinaryExponent(n)
        e   == (MantissaBits - 1) - k
        N   == Scale * 256
        y   == DoubleMod(n % N, e, N)
        s   == RoundStep(y % Scale, Scale, FALSE)
        m   == ((y + s) % N) \div Scale
        big == IF k >= 0 THEN 100 * n >= 128 * Pow2(k) * Scale
                         ELSE 100 * n * Pow2(0 - k) >= 128 * Scale
        G   == IF big THEN 128 ELSE 64
        X   == (100 * m) % (2 * G)
        t   == RoundStep(X % G, G, X \div G = 1)
    IN  [kind |-> "num", neg |-> FALSE, milli |-> 100 * n,
         err |-> 100 * s + Scale * t]

\* const amountInCents = amount * 100
AmountInCents(amount) ==
    IF amount.kind = "nan" \/ amount.milli = 0 THEN amount
    ELSE [TimesHundredExact(amount.milli) EXCEPT !.neg = amount.neg]

\* a JavaScript number that is a whole number
IsInteger(x) == x.kind = "num" /\ x.milli % Scale = 0 /\ x.err = 0

(***************************************************************************)
(* FormSchema (zod) without id and date: CreateInvoice and UpdateInvoice.  *)
(* Each validator gives the list of messages of its field's issues.        *)
(***************************************************************************)
Fields == {"customerId", "amount", "status"}

StatusEnum == {<<"pending">>, <<"paid">>}

\* customerId: z.string({invalid_type_error: ...}): any string passes
ValidateCustomerId(x) ==
    IF x.type = "string" THEN <<>> ELSE <<"Please select a customer.">>

\* an amount schema written with gte(0) in place of gt(0)
ValidateAmount_Gte(x) ==
    LET a == ToNumber(x)
    IN  IF a.kind = "nan" THEN <<"Expected number, received nan">>
        ELSE IF a.neg /\ a.milli > 0
             THEN <<"Please enter an amount greater than $0.">>
             ELSE <<>>

\* amount: z.coerce.number().gt(0, {message: ...})
ValidateAmount(x) ==
    LET a == ToNumber(x)
    IN  IF a.kind = "nan" THEN <<"Expected number, received nan">>
        ELSE IF a.neg \/ a.milli = 0
             THEN <<"Please enter an amount greater than $0.">>
             ELSE <<>>

\* a status that is z.string(): any string passes
ValidateStatus_AnyString(x) ==
    IF x.type # "string" THEN <<"Please select an invoice status.">> ELSE <<>>

\* status: z.enum(['pending', 'paid'], {invalid_type_error: ...}); the default
\* message of a string outside the enum also quotes the received value
ValidateStatus(x) ==
    IF x.type # "string" THEN <<"Please select an invoice status.">>
    ELSE IF x.chars \notin StatusEnum
         THEN <<"Invalid enum value. Expected 'pending' | 'paid'">>
         ELSE <<>>

Issues(formData) ==
    [f \in Fields |->
        CASE f = "customerId" -> ValidateCustomerId(formData.customerId)
          [] f = "amount"     -> ValidateAmount(formData.amount)
          [] f = "status"     -> ValidateStatus(formData.status)]

\* a parse that stops at the first field with an issue, in the order amount,
\* customerId, status, and passes the form on when that field is amount
SafeParse_AmountNotBlocking(formData) ==
    LET issues  == Issues(formData)
        failing == {f \in Fields \ {"amount"} : issues[f] # <<>>}
    IN  IF failing = {}
        THEN [success |-> TRUE,
              data |-> [customerId |-> formData.customerId.chars,
                        amount     |-> ToNumber(formData.amount),
                        status     |-> formData.status.chars]]
        ELSE [success |-> FALSE,
              fieldErrors |-> [f \in failing |-> issues[f]]]

\* schema.safeParse(...), with error.flatten().fieldErrors taken on failure
SafeParse(formData) ==
    LET issues  == Issues(formData)
        failing == {f \in Fields : issues[f] # <<>>}
    IN  IF failing = {}
        THEN [success |-> TRUE,
              data |-> [customerId |-> formData.customerId.chars,
                        amount     |-> ToNumber(formData.amount),
                        status     |-> formData.status.chars]]
        ELSE [success |-> FALSE,
              fieldErrors |-> [f \in failing |-> issues[f]]]

(***************************************************************************)
(* The clock: new Date().toISOString().                                    *)
(***************************************************************************)
Instants ==
    << <<"2023-10-30", "T", "23:59:59.999Z">>,
       <<"2023-10-31", "T", "00:00:00.000Z">> >>

ToISOString(t) == Instants[t]

\* a split that is not there: the string as it is
SplitHead_Whole(s, sep) == s

\* s.split(sep)[0]
SplitHead(s, sep) ==
    IF IndexOf(s, sep) = 0 THEN s ELSE SubSeq(s, 1, IndexOf(s, sep) - 1)

(***************************************************************************)
(* Inputs of the server actions.                                           *)
(***************************************************************************)
CustomerIdInputs == {Null, Str(<<>>), Str(<<"c1">>)}

AmountInputs ==
    {Null, Str(<<>>), Str(<<"0">>), Str(<<"-", "5">>), Str(<<"a", "b", "c">>),
     Str(<<"1", "2", ".", "5", "0">>),
     Str(<<"1", ".", "1", "5">>), Str(<<"1", ".", "0", "0", "5">>)}

StatusInputs == {Null, Str(<<"pending">>), Str(<<"paid">>), Str(<<"draft">>)}

FormInputs ==
    [customerId : CustomerIdInputs, amount : AmountInputs, status : StatusInputs]

InvoiceIds == 1..MaxInvoices

Reqs == {1, 2}

NoForm == [customerId |-> Null, amount |-> Null, status |-> Null]

\* an invocation that has not started
IdleReq ==
    [op |-> "none", pc |-> "idle", id |-> 0, formData |-> NoForm,
     stmt |-> <<>>, returned |-> <<>>, thrown |-> <<>>, storeCalls |-> 0,
     revalidated |-> <<>>, redirected |-> <<>>,
     effects |-> <<>>, caught |-> <<>>, at |-> 0]

\* one entry of an invocation's effects, in the order the code performs them
Effect(call, arg) == [call |-> call, arg |-> arg]

\* what the store may reject a statement with
StoreErrors == {"connection refused", "constraint violation"}

\* an invocation is over: a new one may start in its place
Over(r) == req[r].pc \in {"idle", "rejected", "thrown", "failed", "committed"}

SeedRow ==
    [customer_id |-> <<"c1">>, amount |-> Num(FALSE, 1500 * Scale),
     status |-> <<"pending">>, date |-> <<"2023-10-29">>]

InitServer ==
    /\ invoices = [i \in {1} |-> SeedRow]
    /\ req = [r \in Reqs |-> IdleReq]
    /\ now = 1
    /\ calls = [r \in Reqs |-> 0]

\* the id the store gives an inserted row
FreshId(table) ==
    CHOOSE i \in 1..(Cardinality(DOMAIN table) + 1) :
        /\ i \notin DOMAIN table
        /\ \A j \in 1..(i - 1) : j \in DOMAIN table

(***************************************************************************)
(* createInvoice(prevState, formData)                                      *)
(***************************************************************************)
\* a rejection that carries the errors and no message
CreateInvoiceRejectedState_NoMessage(fieldErrors) == [errors |-> fieldErrors]

CreateInvoiceRejectedState(fieldErrors) ==
    [errors |-> fieldErrors,
     message |-> "Missing Fields. Failed to Create Invoice."]

\* up to the await of the INSERT
createInvoice(r, formData) ==
    /\ Over(r)
    /\ calls[r] < MaxCalls
    /\ calls' = [calls EXCEPT ![r] = @ + 1]
    /\ LET validatedFields == SafeParse(formData)
           start == [IdleReq EXCEPT !.op = "createInvoice",
                                    !.formData = formData, !.at = now]
       IN  IF ~validatedFields.success
           THEN req' = [req EXCEPT ![r] =
                    [start EXCEPT
                       !.pc = "rejected",
                       !.returned = <<CreateInvoiceRejectedState(
                                          validatedFields.fieldErrors)>>]]
           ELSE req' = [req EXCEPT ![r] =
                    [start EXCEPT
                       !.pc = "mutating",
                       !.storeCalls = 1,
                       !.effects = <<Effect("sql", "INSERT")>>,
                       !.stmt = <<[customer_id |-> validatedFields.data.customerId,
                                   amount |-> AmountInCents(validatedFields.data.amount),
                                   status |-> validatedFields.data.status,
                                   date |-> SplitHead(ToISOString(now), "T")]>>]]
    /\ UNCHANGED <<invoices, now, searchVars, siteVars>>

CreateInvoiceCatch == [message |-> "Database Error: Failed to Create Invoice."]

\* a createInvoice that redirects before it revalidates
createInvoiceResolved_RedirectsFirst(r) ==
    /\ req[r].op = "createInvoice" /\ req[r].pc = "mutating"
    /\ LET id == FreshId(invoices)
       IN  invoices' = [i \in DOMAIN invoices \cup {id} |->
                           IF i = id THEN req[r].stmt[1] ELSE invoices[i]]
    /\ req' = [req EXCEPT ![r].pc = "committed",
                          ![r].revalidated = <<"/dashboard/invoices">>,
                          ![r].redirected = <<"/dashboard/invoices">>,
                          ![r].effects = @ \o
                              <<Effect("resolved", "sql"),
                                Effect("redirect", "/dashboard/invoices"),
                                Effect("revalidatePath", "/dashboard/invoices")>>]
    /\ UNCHANGED <<now, calls, searchVars, siteVars>>

\* the INSERT succeeded: revalidatePath, redirect
createInvoiceResolved(r) ==
    /\ req[r].op = "createInvoice" /\ req[r].pc = "mutating"
    /\ LET id == FreshId(invoices)
       IN  invoices' = [i \in DOMAIN invoices \cup {id} |->
                           IF i = id THEN req[r].stmt[1] ELSE invoices[i]]
    /\ req' = [req EXCEPT ![r].pc = "committed",
                          ![r].revalidated = <<"/dashboard/invoices">>,
                          ![r].redirected = <<"/dashboard/invoices">>,
                          ![r].effects = @ \o
                              <<Effect("resolved", "sql"),
                                Effect("revalidatePath", "/dashboard/invoices"),
                                Effect("redirect", "/dashboard/invoices")>>]
    /\ UNCHANGED <<now, calls, searchVars, siteVars>>

\* a catch block that reports the failed INSERT as a failed validation
createInvoiceFailed_Rejects(r) ==
    /\ req[r].op = "createInvoice" /\ req[r].pc = "mutating"
    /\ \E error \in StoreErrors :
          req' = [req EXCEPT ![r].pc = "rejected",
                             ![r].caught = <<error>>,
                             ![r].effects = @ \o <<Effect("rejected", "sql")>>,
                             ![r].returned =
                                 <<CreateInvoiceRejectedState(
                                       [f \in {} |-> <<>>])>>]
    /\ UNCHANGED <<invoices, now, calls, searchVars, siteVars>>

\* a catch block that hands the text of the error to the caller
createInvoiceFailed_Leaks(r) ==
    /\ req[r].op = "createInvoice" /\ req[r].pc = "mutating"
    /\ \E error \in StoreErrors :
          req' = [req EXCEPT ![r].pc = "failed",
                             ![r].caught = <<error>>,
                             ![r].effects = @ \o <<Effect("rejected", "sql")>>,
                             ![r].returned = <<[message |-> error]>>]
    /\ UNCHANGED <<invoices, now, calls, searchVars, siteVars>>

\* a catch block that runs the INSERT once more before it gives up
createInvoiceFailed_Retries(r) ==
    /\ req[r].op = "createInvoice" /\ req[r].pc = "mutating"
    /\ \E error \in StoreErrors :
          IF req[r].storeCalls = 1
          THEN req' = [req EXCEPT ![r].storeCalls = 2,
                                  ![r].effects = @ \o
                                      <<Effect("rejected", "sql"),
                                        Effect("sql", "INSERT")>>]
          ELSE req' = [req EXCEPT ![r].pc = "failed",
                                  ![r].caught = <<error>>,
                                  ![r].effects = @ \o <<Effect("rejected", "sql")>>,
                                  ![r].returned = <<CreateInvoiceCatch>>]
    /\ UNCHANGED <<invoices, now, calls, searchVars, siteVars>>

\* the INSERT failed: catch
createInvoiceFailed(r) ==
    /\ req[r].op = "createInvoice" /\ req[r].pc = "mutating"
    /\ \E error \in StoreErrors :
          req' = [req EXCEPT ![r].pc = "failed",
                             ![r].caught = <<error>>,
                             ![r].effects = @ \o <<Effect("rejected", "sql")>>,
                             ![r].returned = <<CreateInvoiceCatch>>]
    /\ UNCHANGED <<invoices, now, calls, searchVars, siteVars>>

(***************************************************************************)
(* updateInvoice(id, formData)                                             *)
(***************************************************************************)
\* UpdateInvoice.parse(...) throws the ZodError that safeParse would return
UpdateInvoiceThrown(fieldErrors) ==
    [name |-> "ZodError", fieldErrors |-> fieldErrors]

\* an updateInvoice that takes the form as it is, without the parse
updateInvoice_Unchecked(r, id, formData) ==
    /\ Over(r)
    /\ calls[r] < MaxCalls
    /\ calls' = [calls EXCEPT ![r] = @ + 1]
    /\ req' = [req EXCEPT ![r] =
          [IdleReq EXCEPT
             !.op = "updateInvoice", !.id = id, !.formData = formData,
             !.at = now,
             !.pc = "mutating",
             !.storeCalls = 1,
             !.effects = <<Effect("sql", "UPDATE")>>,
             !.stmt = <<[customer_id |-> IF formData.customerId.type = "string"
                                         THEN formData.customerId.chars ELSE <<>>,
                         amount |-> AmountInCents(ToNumber(formData.amount)),
                         status |-> IF formData.status.type = "string"
                                    THEN formData.status.chars ELSE <<>>]>>]]
    /\ UNCHANGED <<invoices, now, searchVars, siteVars>>

\* up to the await of the UPDATE
updateInvoice(r, id, formData) ==
    /\ Over(r)
    /\ calls[r] < MaxCalls
    /\ calls' = [calls EXCEPT ![r] = @ + 1]
    /\ LET parsed == SafeParse(formData)
           start == [IdleReq EXCEPT !.op = "updateInvoice", !.id = id,
                                    !.formData = formData, !.at = now]
       IN  IF ~parsed.success
           THEN req' = [req EXCEPT ![r] =
                    [start EXCEPT
                       !.pc = "thrown",
                       !.thrown = <<UpdateInvoiceThrown(parsed.fieldErrors)>>]]
           ELSE req' = [req EXCEPT ![r] =
                    [start EXCEPT
                       !.pc = "mutating",
                       !.storeCalls = 1,
                       !.effects = <<Effect("sql", "UPDATE")>>,
                       !.stmt = <<[customer_id |-> parsed.data.customerId,
                                   amount |-> AmountInCents(parsed.data.amount),
                                   status |-> parsed.data.status]>>]]
    /\ UNCHANGED <<invoices, now, searchVars, siteVars>>

UpdateInvoiceCatch == [message |-> "Database Error: Failed to Update Invoice."]

\* an UPDATE that writes customer_id and amount and leaves status to a
\* second statement that never comes
UpdateRows_SkipsStatus(table, id, set) ==
    [i \in DOMAIN table |->
        IF i = id
        THEN [table[i] EXCEPT !.customer_id = set.customer_id,
                              !.amount = set.amount]
        ELSE table[i]]

\* UPDATE invoices SET customer_id, amount, status WHERE id = ${id}
UpdateRows(table, id, set) ==
    [i \in DOMAIN table |->
        IF i = id
        THEN [table[i] EXCEPT !.customer_id = set.customer_id,
                              !.amount = set.amount,
                              !.status = set.status]
        ELSE table[i]]

\* an updateInvoice that reports an UPDATE of no row as a failure
updateInvoiceResolved_NotFound(r) ==
    /\ req[r].op = "updateInvoice" /\ req[r].pc = "mutating"
    /\ invoices' = UpdateRows(invoices, req[r].id, req[r].stmt[1])
    /\ IF req[r].id \in DOMAIN invoices
       THEN req' = [req EXCEPT ![r].pc = "committed",
                               ![r].revalidated = <<"/dashboard/invoices">>,
                               ![r].redirected = <<"/dashboard/invoices">>,
                               ![r].effects = @ \o
                                   <<Effect("resolved", "sql"),
                                     Effect("revalidatePath", "/dashboard/invoices"),
                                     Effect("redirect", "/dashboard/invoices")>>]
       ELSE req' = [req EXCEPT ![r].pc = "failed",
                               ![r].effects = @ \o <<Effect("resolved", "sql")>>,
                               ![r].returned = <<[message |-> "Invoice not found."]>>]
    /\ UNCHANGED <<now, calls, searchVars, siteVars>>

\* the UPDATE succeeded: revalidatePath, redirect
updateInvoiceResolved(r) ==
    /\ req[r].op = "updateInvoice" /\ req[r].pc = "mutating"
    /\ invoices' = UpdateRows(invoices, req[r].id, req[r].stmt[1])
    /\ req' = [req EXCEPT ![r].pc = "committed",
                          ![r].revalidated = <<"/dashboard/invoices">>,
                          ![r].redirected = <<"/dashboard/invoices">>,
                          ![r].effects = @ \o
                              <<Effect("resolved", "sql"),
                                Effect("revalidatePath", "/dashboard/invoices"),
                                Effect("redirect", "/dashboard/invoices")>>]
    /\ UNCHANGED <<now, calls, searchVars, siteVars>>

\* a catch block without its return: the action goes on to revalidate and
\* redirect
updateInvoiceFailed_FallsThrough(r) ==
    /\ req[r].op = "updateInvoice" /\ req[r].pc = "mutating"
    /\ req' = [req EXCEPT ![r].pc = "failed",
                          ![r].revalidated = <<"/dashboard/invoices">>,
                          ![r].redirected = <<"/dashboard/invoices">>]
    /\ UNCHANGED <<invoices, now, calls, searchVars, siteVars>>

\* the UPDATE failed: catch
updateInvoiceFailed(r) ==
    /\ req[r].op = "updateInvoice" /\ req[r].pc = "mutating"
    /\ \E error \in StoreErrors :
          req' = [req EXCEPT ![r].pc = "failed",
                             ![r].caught = <<error>>,
                             ![r].effects = @ \o <<Effect("rejected", "sql")>>,
                             ![r].returned = <<UpdateInvoiceCatch>>]
    /\ UNCHANGED <<invoices, now, calls, searchVars, siteVars>>

(***************************************************************************)
(* deleteInvoice(id)                                                       *)
(***************************************************************************)
\* up to the await of the DELETE
deleteInvoice(r, id) ==
    /\ Over(r)
    /\ calls[r] < MaxCalls
    /\ calls' = [calls EXCEPT ![r] = @ + 1]
    /\ req' = [req EXCEPT ![r] =
                  [IdleReq EXCEPT !.op = "deleteInvoice", !.id = id,
                                  !.at = now,
                                  !.pc = "mutating", !.storeCalls = 1,
                                  !.effects = <<Effect("sql", "DELETE")>>]]
    /\ UNCHANGED <<invoices, now, searchVars, siteVars>>

DeleteInvoiceCatch == [message |-> "Database Error: Failed to Delete Invoice."]

\* DELETE FROM invoices WHERE id = ${id}
DeleteRows(table, id) == [i \in DOMAIN table \ {id} |-> table[i]]

\* a deleteInvoice that redirects as the other two actions do
deleteInvoiceResolved_Redirects(r) ==
    /\ req[r].op = "deleteInvoice" /\ req[r].pc = "mutating"
    /\ invoices' = DeleteRows(invoices, req[r].id)
    /\ req' = [req EXCEPT ![r].pc = "committed",
                          ![r].revalidated = <<"/dashboard/invoices">>,
                          ![r].redirected = <<"/dashboard/invoices">>,
                          ![r].effects = @ \o
                              <<Effect("resolved", "sql"),
                                Effect("revalidatePath", "/dashboard/invoices"),
                                Effect("redirect", "/dashboard/invoices")>>]
    /\ UNCHANGED <<now, calls, searchVars, siteVars>>

\* the DELETE succeeded: revalidatePath only
deleteInvoiceResolved(r) ==
    /\ req[r].op = "deleteInvoice" /\ req[r].pc = "mutating"
    /\ invoices' = DeleteRows(invoices, req[r].id)
    /\ req' = [req EXCEPT ![r].pc = "committed",
                          ![r].revalidated = <<"/dashboard/invoices">>,
                          ![r].effects = @ \o
                              <<Effect("resolved", "sql"),
                                Effect("revalidatePath", "/dashboard/invoices")>>]
    /\ UNCHANGED <<now, calls, searchVars, siteVars>>

\* the DELETE failed: catch
deleteInvoiceFailed(r) ==
    /\ req[r].op = "deleteInvoice" /\ req[r].pc = "mutating"
    /\ \E error \in StoreErrors :
          req' = [req EXCEPT ![r].pc = "failed",
                             ![r].caught = <<error>>,
                             ![r].effects = @ \o <<Effect("rejected", "sql")>>,
                             ![r].returned = <<DeleteInvoiceCatch>>]
    /\ UNCHANGED <<invoices, now, calls, searchVars, siteVars>>

\* time passes
Tick ==
    /\ now < Len(Instants)
    /\ now' = now + 1
    /\ UNCHANGED <<invoices, req, calls, searchVars, siteVars>>

(***************************************************************************)
(* URLSearchParams: an ordered list of name-value pairs.                   *)
(***************************************************************************)
Pair(k, v) == [key |-> k, value |-> v]

RECURSIVE Without(_, _)
\* params.delete(name): every pair of that name goes
Without(params, name) ==
    IF params = <<>> THEN <<>>
    ELSE IF Head(params).key = name THEN Without(Tail(params), name)
         ELSE <<Head(params)>> \o Without(Tail(params), name)

ParamsDelete(params, name) == Without(params, name)

Has(params, name) == \E i \in 1..Len(params) : params[i].key = name

\* params.get(name): the value of the first pair of that name
ParamsGet(params, name) ==
    params[CHOOSE i \in 1..Len(params) :
               params[i].key = name /\ \A j \in 1..(i - 1) : params[j].key # name].value

\* params.set(name, value): the first pair of that name takes the value and
\* the others go; without one, the pair is appended
ParamsSet(params, name, value) ==
    IF Has(params, name)
    THEN LET i == CHOOSE i \in 1..Len(params) :
                      params[i].key = name /\ \A j \in 1..(i - 1) : params[j].key # name
         IN  SubSeq(params, 1, i - 1) \o <<Pair(name, value)>>
               \o Without(SubSeq(params, i + 1, Len(params)), name)
    ELSE Append(params, Pair(name, value))

\* application/x-www-form-urlencoded: one token of a name or a value
EncodeToken(c) ==
    CASE c = "&" -> "%26" [] c = "=" -> "%3D" [] c = "?" -> "%3F"
      [] c = "+" -> "%2B" [] c = "%" -> "%25" [] c = " " -> "+"
      [] OTHER -> c

DecodeToken(c) ==
    CASE c = "%26" -> "&" [] c = "%3D" -> "=" [] c = "%3F" -> "?"
      [] c = "%2B" -> "+" [] c = "%25" -> "%" [] c = "+" -> " "
      [] OTHER -> c

Encode(s) == [i \in 1..Len(s) |-> EncodeToken(s[i])]
Decode(s) == [i \in 1..Len(s) |-> DecodeToken(s[i])]

RECURSIVE ParamsToString(_)
\* params.toString()
ParamsToString(params) ==
    IF params = <<>> THEN <<>>
    ELSE Encode(Head(params).key) \o <<"=">> \o Encode(Head(params).value)
           \o (IF Len(params) > 1 THEN <<"&">> ELSE <<>>)
           \o ParamsToString(Tail(params))

RECURSIVE ParseQuery(_)
\* the search parameters of a query string
ParseQuery(q) ==
    IF q = <<>> THEN <<>>
    ELSE LET amp  == IndexOf(q, "&")
             seg  == IF amp = 0 THEN q ELSE SubSeq(q, 1, amp - 1)
             rest == IF amp = 0 THEN <<>> ELSE SubSeq(q, amp + 1, Len(q))
             eq   == IndexOf(seg, "=")
             pair == IF eq = 0 THEN Pair(Decode(seg), <<>>)
                     ELSE Pair(Decode(SubSeq(seg, 1, eq - 1)),
                               Decode(SubSeq(seg, eq + 1, Len(seg))))
         IN  (IF seg = <<>> THEN <<>> ELSE <<pair>>) \o ParseQuery(rest)

\* the location a URL (a path with an optional query) names
ParseUrl(url) ==
    LET q == IndexOf(url, "?")
    IN  IF q = 0 THEN [pathname |-> url, search |-> <<>>]
        ELSE [pathname |-> SubSeq(url, 1, q - 1),
              search |-> ParseQuery(SubSeq(url, q + 1, Len(url)))]

(***************************************************************************)
(* Search: the input field, the debounced callback and handleClick.        *)
(***************************************************************************)
\* useDebouncedCallback((v) => handleClick(v), 1000)
DelayMs == 1000

TermAlphabet == {"a", "&"}

RECURSIVE SeqsUpTo(_, _)
SeqsUpTo(S, n) ==
    IF n = 0 THEN {<<>>}
    ELSE LET shorter == SeqsUpTo(S, n - 1)
         IN  shorter \cup {Append(s, c) : s \in shorter, c \in S}

\* what the user may have in the search field
TermInputs == SeqsUpTo(TermAlphabet, MaxTermLen)

\* the pages the Search component is first rendered on
InitialLocations ==
    {[pathname |-> <<"/dashboard/invoices">>, search |-> s] :
        s \in {<<>>,
               <<Pair(<<"page">>, <<"2">>)>>,
               <<Pair(<<"query">>, <<"a">>)>>,
               <<Pair(<<"page">>, <<"2">>), Pair(<<"query">>, <<"a", "&">>)>>,
               <<Pair(<<"query">>, <<>>), Pair(<<"page">>, <<"2">>)>>,
               <<Pair(<<"query">>, <<"a">>), Pair(<<"page">>, <<"2">>),
                 Pair(<<"query">>, <<"&">>)>>}}

NoTimer == [pending |-> FALSE, args |-> <<>>, elapsed |-> 0]

InitSearch ==
    /\ location \in InitialLocations
    /\ debounce = NoTimer
    /\ lastClick = <<>>
    /\ fired = 0
    /\ typed = 0
    /\ lastTyped = <<>>
    /\ bursts = 0
    /\ sinceTyped = 0

\* a call that leaves a pending timer running and only replaces its arguments
debounceCall_KeepsTimer(term) ==
    /\ typed < MaxEvents
    /\ typed' = typed + 1
    /\ lastTyped' = term
    /\ sinceTyped' = 0
    /\ bursts' = IF debounce.pending THEN bursts ELSE bursts + 1
    /\ debounce' = [pending |-> TRUE, args |-> term,
                    elapsed |-> IF debounce.pending THEN debounce.elapsed ELSE 0]
    /\ UNCHANGED <<location, lastClick, fired, serverVars, siteVars>>

\* onChange: debounceCall(e.target.value) starts the timer, or starts it again
debounceCall(term) ==
    /\ typed < MaxEvents
    /\ typed' = typed + 1
    /\ lastTyped' = term
    /\ sinceTyped' = 0
    /\ bursts' = IF debounce.pending THEN bursts ELSE bursts + 1
    /\ debounce' = [pending |-> TRUE, args |-> term, elapsed |-> 0]
    /\ UNCHANGED <<location, lastClick, fired, serverVars, siteVars>>

\* time passes; a timer that is due runs before more time passes
Advance ==
    /\ debounce.pending
    /\ debounce.elapsed < DelayMs
    /\ debounce' = [debounce EXCEPT !.elapsed = @ + TickMs]
    /\ sinceTyped' = IF sinceTyped + TickMs > DelayMs THEN DelayMs
                     ELSE sinceTyped + TickMs
    /\ UNCHANGED <<location, lastClick, fired, typed, lastTyped, bursts,
                   serverVars, siteVars>>

\* a handleClick that sets query whatever the term is
ClickParams_AlwaysSet(params, term) == ParamsSet(params, <<"query">>, term)

\* a handleClick that also sends the list back to its first page
ClickParams_ResetsPage(params, term) ==
    LET paged == ParamsSet(params, <<"page">>, <<"1">>)
    IN  IF term # <<>> THEN ParamsSet(paged, <<"query">>, term)
        ELSE ParamsDelete(paged, <<"query">>)

\* the parameter set handleClick builds from the current one
ClickParams(params, term) ==
    IF term # <<>> THEN ParamsSet(params, <<"query">>, term)
    ELSE ParamsDelete(params, <<"query">>)

\* `${pathname}?${params.toString()}`
UrlRoute(pathname, params) == pathname \o <<"?">> \o ParamsToString(params)

\* the URL handleClick hands to replace
ReplaceArg(urlRoute) == <<"/dashboard">>

\* function handleClick(term), its replace navigating the router
handleClick(term) ==
    LET params   == ClickParams(location.search, term)
        urlRoute == UrlRoute(location.pathname, params)
    IN  /\ lastClick' = <<[term |-> term, searchParams |-> location.search,
                           pathname |-> location.pathname, params |-> params,
                           urlRoute |-> urlRoute,
                           replaced |-> ReplaceArg(urlRoute)]>>
        /\ location' = ParseUrl(ReplaceArg(urlRoute))
        /\ fired' = fired + 1

\* defaultValue={searchParams.get('query')?.toString()} of the input, as the
\* component renders it at a URL
DefaultValue(params) ==
    IF Has(params, <<"query">>)
    THEN [type |-> "string", chars |-> ParamsGet(params, <<"query">>)]
    ELSE [type |-> "undefined"]

\* the timer expires: the callback runs with the arguments of the last call
TimerExpired ==
    /\ debounce.pending
    /\ debounce.elapsed >= DelayMs
    /\ handleClick(debounce.args)
    /\ debounce' = NoTimer
    /\ UNCHANGED <<typed, lastTyped, bursts, sinceTyped, serverVars, siteVars>>

(***************************************************************************)
(* The site around the actions: the middleware and the invoices Page.      *)
(***************************************************************************)
InitSite ==
    /\ visit = <<>>
    /\ rendered = <<>>

Undefined == [type |-> "undefined"]

\* the values of the pairs of one name, in their order
ValuesOf(params, name) ==
    LET named == SelectSeq(params, LAMBDA p : p.key = name)
    IN  [i \in 1..Len(named) |-> named[i].value]

\* searchParams?.name of the prop Next gives a page: undefined without the
\* parameter, its string with one, the array of its strings with more
SearchParamsProp(params, name) ==
    LET values == ValuesOf(params, name)
    IN  IF values = <<>> THEN Undefined
        ELSE IF Len(values) = 1 THEN Str(values[1])
        ELSE [type |-> "array", items |-> values]

\* Number(x) of such a property: NaN for undefined, and for an array of two
\* or more strings, whose string has a comma
NumberOfProp(x) ==
    IF x.type \in {"undefined", "array"} THEN NaN ELSE ToNumber(x)

\* x is falsy: NaN, 0, undefined or ''
Falsy(x) ==
    \/ x = NaN
    \/ x = Undefined
    \/ x = Str(<<>>)
    \/ ("kind" \in DOMAIN x /\ x.kind = "num" /\ x.milli = 0)

\* a || b
OrElse(a, b) == IF Falsy(a) THEN b ELSE a

\* const currentPage = Number(searchParams?.page) || 1
CurrentPage(params) ==
    OrElse(NumberOfProp(SearchParamsProp(params, <<"page">>)), Num(FALSE, Scale))

\* const query = searchParams?.query || ''
QueryOf(params) == OrElse(SearchParamsProp(params, <<"query">>), Str(<<>>))

InvoicesPathname == <<"/dashboard/invoices">>

\* the values the page parameter takes in a URL the user opens
PageInputs ==
    {<<>>, <<"a", "b", "c">>, <<"0">>, <<"-", "5">>, <<"1", ".", "5">>, <<"2">>}

\* the search parameters of the URLs the user opens
PageSearches ==
    {q \o pg : q \in {<<>>, <<Pair(<<"query">>, <<"a">>)>>},
               pg \in {<<>>} \cup {<<Pair(<<"page">>, v)>> : v \in PageInputs}}

\* the user opens the invoices page at a URL: a link, or the address bar
OpenInvoices(search) ==
    /\ location' = [pathname |-> InvoicesPathname, search |-> search]
    /\ UNCHANGED <<debounce, lastClick, fired, typed, lastTyped, bursts,
                   sinceTyped, visit, rendered, serverVars>>

\* export default async function Page({ searchParams })
Page ==
    /\ location.pathname = InvoicesPathname
    /\ rendered' = <<[searchParams |-> location.search,
                      query |-> QueryOf(location.search),
                      currentPage |-> CurrentPage(location.search)]>>
    /\ UNCHANGED <<visit, searchVars, serverVars>>


(***************************************************************************)
(* authConfig and the middleware NextAuth(authConfig).auth.  A pathname is *)
(* a sequence of tokens, "/dashboard" being one token.                     *)
(***************************************************************************)
\* s.startsWith(prefix)
StartsWith(s, prefix) ==
    /\ Len(s) >= Len(prefix)
    /\ SubSeq(s, 1, Len(prefix)) = prefix

\* the session the middleware passes as auth: none, one without a user,
\* one with a user
Sessions ==
    {Null,
     [type |-> "session", user |-> Undefined],
     [type |-> "session", user |-> [email |-> "user@nextmail.com"]]}

\* pages: { signIn: '/login' }
SignInPage == <<"/login">>

Allowed == [kind |-> "boolean", value |-> TRUE]
Denied == [kind |-> "boolean", value |-> FALSE]

\* Response.redirect(url)
ResponseRedirect(url) == [kind |-> "redirect", url |-> url]

\* new URL(pathname, base) for an absolute pathname: the base's origin, the
\* pathname and no search
NewUrl(pathname, base) == [pathname |-> pathname, search |-> <<>>]

\* !!auth?.user
IsLoggedIn(auth) ==
    /\ auth.type = "session"
    /\ auth.user # Undefined

\* an authorized that denies nothing
authorized_AllowsAll(auth, nextUrl) == Allowed

\* an authorized that asks for a login on every page, the login page too
authorized_DeniesLoggedOut(auth, nextUrl) ==
    IF IsLoggedIn(auth) THEN Allowed ELSE Denied

\* an authorized that lets the logged-in user through everywhere
authorized_NoRedirect(auth, nextUrl) ==
    IF IsLoggedIn(auth) THEN Allowed
    ELSE IF StartsWith(nextUrl.pathname, <<"/dashboard">>) THEN Denied
    ELSE Allowed

\* authorized({ auth, request: { nextUrl } })
authorized(auth, nextUrl) ==
    LET isLoggedIn == IsLoggedIn(auth)
        isOnDashboard == StartsWith(nextUrl.pathname, <<"/dashboard">>)
    IN  IF isOnDashboard
        THEN IF isLoggedIn THEN Allowed ELSE Denied
        ELSE IF isLoggedIn
             THEN ResponseRedirect(NewUrl(<<"/dashboard">>, nextUrl))
             ELSE Allowed

\* matcher: ['/((?!api|_next/static|_next/image|.*\\.png$).*)']
Matcher(pathname) ==
    /\ pathname[1] \notin {"/api", "/_next/static", "/_next/image"}
    /\ pathname[Len(pathname)] # ".png"

\* what the middleware answers a request with: the page, or a redirect
RespondTo(auth, nextUrl) ==
    IF ~Matcher(nextUrl.pathname)
    THEN [called |-> FALSE, authorized |-> Allowed, response |-> Allowed]
    ELSE LET result == authorized(auth, nextUrl)
         IN  [called |-> TRUE,
              authorized |-> result,
              response |-> IF result = Denied
                           THEN ResponseRedirect(NewUrl(SignInPage, nextUrl))
                           ELSE result]

\* the pathnames and URLs the browser asks for
AuthPathnames ==
    {<<"/">>, <<"/login">>, <<"/dash">>, <<"/invoices", "/dashboard">>,
     <<"/dashboard">>, <<"/dashboard", "/invoices">>, <<"/dashboard", "-old">>,
     <<"/dashboard", "/hero", ".png">>, <<"/api", "/seed">>}

AuthSearches ==
    {<<>>, <<Pair(<<"page">>, <<"2">>)>>, <<Pair(<<"query">>, <<"a">>)>>}

AuthUrls ==
    {[pathname |-> pn, search |-> sr] : pn \in AuthPathnames, sr \in AuthSearches}

\* export default NextAuth(authConfig).auth, on a request of the browser
middleware(auth, nextUrl) ==
    /\ visit' = <<[auth |-> auth, requested |-> nextUrl, nextUrl |-> nextUrl,
                   redirects |-> 0] @@ RespondTo(auth, nextUrl)>>
    /\ UNCHANGED <<rendered, searchVars, serverVars>>

\* the browser follows a redirect, with the session it has
FollowRedirect ==
    /\ visit # <<>>
    /\ visit[1].response.kind = "redirect"
    /\ visit[1].redirects < MaxRedirects
    /\ LET target == visit[1].response.url
       IN  visit' = <<[auth |-> visit[1].auth,
                       requested |-> visit[1].requested,
                       nextUrl |-> target,
                       redirects |-> visit[1].redirects + 1]
                      @@ RespondTo(visit[1].auth, target)>>
    /\ UNCHANGED <<rendered, searchVars, serverVars>>

(***************************************************************************)
(* The server actions, one invocation at a time.                           *)
(***************************************************************************)
Next ==
    \/ \E formData \in FormInputs : createInvoice(1, formData)
    \/ createInvoiceResolved(1)
    \/ createInvoiceFailed(1)
    \/ \E id \in InvoiceIds, formData \in FormInputs : updateInvoice(1, id, formData)
    \/ updateInvoiceResolved(1)
    \/ updateInvoiceFailed(1)
    \/ \E id \in InvoiceIds : deleteInvoice(1, id)
    \/ deleteInvoiceResolved(1)
    \/ deleteInvoiceFailed(1)
    \/ Tick

Init ==
    /\ InitServer
    /\ InitSearch
    /\ InitSite
    /\ location = [pathname |-> <<"/dashboard/invoices">>, search |-> <<>>]

Spec == Init /\ [][Next]_vars

\* an awaited sql call settles: it resolves or it rejects
StoreSettles ==
    \/ createInvoiceResolved(1) \/ createInvoiceFailed(1)
    \/ updateInvoiceResolved(1) \/ updateInvoiceFailed(1)
    \/ deleteInvoiceResolved(1) \/ deleteInvoiceFailed(1)

SpecSettling == Spec /\ WF_vars(StoreSettles)

(***************************************************************************)
(* Two callers of updateInvoice at once, each awaiting its own UPDATE.     *)
(***************************************************************************)
\* the valid forms the two callers submit
PairForms ==
    {[customerId |-> Str(<<"c1">>), amount |-> Str(<<"1", "2", ".", "5", "0">>),
      status |-> Str(<<"paid">>)],
     [customerId |-> Str(<<"c2">>), amount |-> Str(<<"7">>),
      status |-> Str(<<"pending">>)],
     [customerId |-> Str(<<"c2">>), amount |-> Str(<<"1", "2", ".", "5", "0">>),
      status |-> Str(<<"pending">>)]}

NextPair ==
    \/ \E r \in Reqs, id \in InvoiceIds, formData \in PairForms :
          updateInvoice(r, id, formData)
    \/ \E r \in Reqs : updateInvoiceResolved(r)
    \/ \E r \in Reqs : updateInvoiceFailed(r)

SpecPair == Init /\ [][NextPair]_vars

(***************************************************************************)
(* The Search component in the browser.                                    *)
(***************************************************************************)
NextSearch ==
    \/ \E term \in TermInputs : debounceCall(term)
    \/ Advance
    \/ TimerExpired

InitBrowser == InitServer /\ InitSearch /\ InitSite

SpecSearch == InitBrowser /\ [][NextSearch]_vars

(***************************************************************************)
(* The invoices Page at the URLs the user opens.                           *)
(***************************************************************************)
NextPage ==
    \/ \E search \in PageSearches : OpenInvoices(search)
    \/ Page

SpecPage == InitBrowser /\ [][NextPage]_vars

(***************************************************************************)
(* The middleware in front of the site.                                    *)
(***************************************************************************)
NextAuth ==
    \/ \E auth \in Sessions, nextUrl \in AuthUrls : middleware(auth, nextUrl)
    \/ FollowRedirect

SpecAuth == InitBrowser /\ [][NextAuth]_vars

(***************************************************************************)
(* Properties of the Search component (under SpecSearch).                  *)
(***************************************************************************)
\* the input is quiet: every input event has been answered by the timer
Quiet == ~debounce.pending /\ typed > 0

\* The debounce itself: handleClick has run once per burst of input events
\* that is over, and the last run got the value of the last input event.
DebounceOncePerBurst ==
    /\ debounce.pending => fired = bursts - 1 /\ debounce.args = lastTyped
    /\ ~debounce.pending => fired = bursts
    /\ Quiet => lastClick[1].term = lastTyped

\* C1: once the input is quiet, one navigation update (replace call) has
\* fired per burst of input events, and its URL is the one computed from the
\* value of the last input event.
C1_OneUpdateFromLastValue ==
    Quiet =>
        /\ fired = bursts
        /\ lastClick[1].term = lastTyped
        /\ lastClick[1].replaced =
               UrlRoute(lastClick[1].pathname,
                        ClickParams(lastClick[1].searchParams, lastTyped))

\* C2: the URL handed to replace is urlRoute: the pathname, "?" and the query
\* string of the updated parameter set.
C2_ReplaceGetsUrlRoute ==
    fired > 0 => lastClick[1].replaced = lastClick[1].urlRoute

QueryValues(params) ==
    {params[i].value : i \in {j \in 1..Len(params) : params[j].key = <<"query">>}}

\* C10: the parameter set a run of handleClick with term t builds has query = t
\* when t is non-empty and no query key when t is empty, and never a query
\* with an empty value.
C10_QueryParamCanonical ==
    lastClick # <<>> =>
        LET c == lastClick[1]
        IN  /\ c.term # <<>> => QueryValues(c.params) = {c.term}
            /\ c.term = <<>> => QueryValues(c.params) = {}
            /\ <<>> \notin QueryValues(c.params)

\* the field was cleared over a URL that had a query
C10_Witness ==
    /\ lastClick # <<>>
    /\ lastClick[1].term = <<>>
    /\ <<"a">> \in QueryValues(lastClick[1].searchParams)

(***************************************************************************)
(* Properties of the server actions (under Spec).                          *)
(***************************************************************************)
\* the form fails the schema: some field has an issue
FailsSchema(formData) ==
    \/ ValidateCustomerId(formData.customerId) # <<>>
    \/ ValidateAmount(formData.amount) # <<>>
    \/ ValidateStatus(formData.status) # <<>>

\* v is a mapping from field names to non-empty lists of messages
IsFieldErrors(v) ==
    /\ DOMAIN v \subseteq Fields
    /\ DOMAIN v # {}
    /\ \A f \in DOMAIN v : Len(v[f]) > 0

\* the invocation has had no effect outside itself
NoEffect(q) ==
    /\ q.storeCalls = 0
    /\ q.stmt = <<>>
    /\ q.revalidated = <<>>
    /\ q.redirected = <<>>

\* C3: a createInvoice whose form fails the schema in any field returns a
\* mapping from field names to messages and makes no store call, no cache
\* invalidation and no redirect.
C3_CreateAllOrNothing ==
    \A r \in Reqs :
        (req[r].op = "createInvoice" /\ FailsSchema(req[r].formData)) =>
            /\ req[r].pc = "rejected"
            /\ Len(req[r].returned) = 1
            /\ "errors" \in DOMAIN req[r].returned[1]
            /\ IsFieldErrors(req[r].returned[1].errors)
            /\ \A f \in Fields :
                   f \in DOMAIN req[r].returned[1].errors
                       <=> Issues(req[r].formData)[f] # <<>>
            /\ req[r].thrown = <<>>
            /\ NoEffect(req[r])

\* a form with a valid customer and status and a bad amount was rejected
C3_Witness ==
    /\ req[1].op = "createInvoice" /\ req[1].pc = "rejected"
    /\ req[1].formData.customerId = Str(<<"c1">>)
    /\ req[1].formData.status = Str(<<"paid">>)
    /\ req[1].formData.amount = Str(<<"a", "b", "c">>)

\* C4: createInvoice with an empty-string customerId and a valid amount and
\* status is rejected with an error entry for customerId, and no mutation is
\* attempted.
C4_EmptyCustomerIdRejected ==
    \A r \in Reqs :
        (/\ req[r].op = "createInvoice"
         /\ req[r].formData.customerId = Str(<<>>)
         /\ ValidateAmount(req[r].formData.amount) = <<>>
         /\ ValidateStatus(req[r].formData.status) = <<>>) =>
            /\ req[r].pc = "rejected"
            /\ "customerId" \in DOMAIN req[r].returned[1].errors
            /\ NoEffect(req[r])

\* C5: a validation failure of createInvoice or updateInvoice is never
\* thrown: the action returns it as a per-field error value.
C5_ValidationNeverThrown ==
    \A r \in Reqs :
        (/\ req[r].op \in {"createInvoice", "updateInvoice"}
         /\ FailsSchema(req[r].formData)) =>
            /\ req[r].thrown = <<>>
            /\ Len(req[r].returned) = 1
            /\ "errors" \in DOMAIN req[r].returned[1]
            /\ IsFieldErrors(req[r].returned[1].errors)

DatabaseErrorOf(op) ==
    CASE op = "createInvoice" -> [message |-> "Database Error: Failed to Create Invoice."]
      [] op = "updateInvoice" -> [message |-> "Database Error: Failed to Update Invoice."]
      [] op = "deleteInvoice" -> [message |-> "Database Error: Failed to Delete Invoice."]

\* C6: when the store call of createInvoice, updateInvoice or deleteInvoice
\* fails, the action returns exactly its own Database Error message, and the
\* invocation changes no row, invalidates no cache and redirects nowhere.
C6_StoreFailure ==
    /\ [](\A r \in Reqs :
            req[r].pc = "failed" =>
                /\ req[r].op \in {"createInvoice", "updateInvoice", "deleteInvoice"}
                /\ req[r].returned = <<DatabaseErrorOf(req[r].op)>>
                /\ req[r].thrown = <<>>
                /\ req[r].revalidated = <<>>
                /\ req[r].redirected = <<>>)
    /\ [][\A r \in Reqs :
            (req[r].pc # req'[r].pc /\ req'[r].pc \in {"mutating", "failed"})
                => invoices' = invoices]_vars

\* the DELETE of a row that exists has failed
C6_Witness ==
    /\ req[1].pc = "failed"
    /\ req[1].op = "deleteInvoice"
    /\ req[1].id \in DOMAIN invoices

\* the amount entry coerces to zero or to a negative number
CoercesToNonPositive(x) ==
    LET a == ToNumber(x) IN a.kind = "num" /\ (a.neg \/ a.milli = 0)

\* C7: an amount that coerces to zero or to a negative number ('0', '', a
\* missing field, '-5') is rejected by createInvoice and updateInvoice with
\* the message 'Please enter an amount greater than $0.' and never reaches the
\* store.
C7_AmountMustBePositive ==
    \A r \in Reqs :
        (/\ req[r].op \in {"createInvoice", "updateInvoice"}
         /\ CoercesToNonPositive(req[r].formData.amount)) =>
            /\ NoEffect(req[r])
            /\ LET rejection ==
                       IF req[r].op = "createInvoice"
                       THEN IF req[r].pc = "rejected"
                            THEN req[r].returned[1].errors ELSE << >>
                       ELSE IF req[r].pc = "thrown"
                            THEN req[r].thrown[1].fieldErrors ELSE << >>
               IN  /\ "amount" \in DOMAIN rejection
                   /\ rejection["amount"] = <<"Please enter an amount greater than $0.">>

\* updateInvoice was given '0' with a valid customer and status
C7_Witness ==
    /\ req[1].op = "updateInvoice"
    /\ req[1].formData =
           [customerId |-> Str(<<"c1">>), amount |-> Str(<<"0">>),
            status |-> Str(<<"pending">>)]
    /\ req[1].pc = "thrown"

\* the amount entry is a valid amount with at most two decimal places
TwoDecimalAmount(x) ==
    /\ ValidateAmount(x) = <<>>
    /\ (ToNumber(x).milli * 100) % Scale = 0

\* C8: for a valid amount with at most two decimal places, the amount
\* createInvoice and updateInvoice hand to the store is 100 times the amount
\* entered ('12.50' gives 1250).
C8_TwoDecimalsTimesHundred ==
    \A r \in Reqs :
        (/\ req[r].op \in {"createInvoice", "updateInvoice"}
         /\ req[r].stmt # <<>>
         /\ TwoDecimalAmount(req[r].formData.amount)) =>
            req[r].stmt[1].amount =
                Num(FALSE, 100 * ToNumber(req[r].formData.amount).milli)

\* 100 times the amount, truncated to a whole number of minor units
TruncatedCents(x) ==
    Num(FALSE, ((100 * ToNumber(x).milli) \div Scale) * Scale)

\* C9: the amount createInvoice and updateInvoice persist is always a whole
\* number of minor units: 100 times the validated amount, truncated.
C9_PersistedAmountIsInteger ==
    /\ \A r \in Reqs :
        (req[r].op \in {"createInvoice", "updateInvoice"} /\ req[r].stmt # <<>>) =>
            /\ IsInteger(req[r].stmt[1].amount)
            /\ req[r].stmt[1].amount = TruncatedCents(req[r].formData.amount)
    /\ \A i \in DOMAIN invoices : IsInteger(invoices[i].amount)

(***************************************************************************)
(* The search field and the URL, continued.                                *)
(***************************************************************************)
\* the pairs of a parameter set other than query, in their order
OtherParams(params) == SelectSeq(params, LAMBDA p : p.key # <<"query">>)

\* C11: a search update changes only the query parameter: every other
\* parameter of the current URL (page, say) is in the parameter set
\* handleClick builds, with its value unchanged, and nothing else is added.
C11_OtherParamsKept ==
    lastClick # <<>> =>
        OtherParams(lastClick[1].params) = OtherParams(lastClick[1].searchParams)

\* a term was searched over a URL that had a page parameter
C11_Witness ==
    /\ lastClick # <<>>
    /\ lastClick[1].term # <<>>
    /\ Has(lastClick[1].searchParams, <<"page">>)
    /\ ParamsGet(lastClick[1].params, <<"page">>) = <<"2">>
    /\ ParamsGet(lastClick[1].params, <<"query">>) = lastClick[1].term

\* C12: the debounced callback never runs while less than the delay has
\* passed since the last input event; a new input event replaces the pending
\* callback, so the one that runs is the last one scheduled, with the value of
\* the last input event, and at most one runs per burst of input events.
C12_DebounceWaitsForQuiet ==
    /\ [](fired <= bursts)
    /\ [][fired' # fired =>
            /\ fired' = fired + 1
            /\ debounce.pending /\ ~debounce'.pending
            /\ sinceTyped >= DelayMs
            /\ lastClick'[1].term = lastTyped]_vars
    /\ [][typed' # typed =>
            /\ fired' = fired
            /\ debounce'.pending /\ debounce'.args = lastTyped'
            /\ debounce'.elapsed = 0]_vars

\* two input events less than the delay apart, then one run of handleClick,
\* with the value of the second
C12_Witness ==
    /\ typed = 2 /\ bursts = 1 /\ fired = 1
    /\ lastClick[1].term = lastTyped
    /\ sinceTyped >= DelayMs

\* C13: whether the field is cleared and then typed into, or typed into and
\* then cleared, once the last update has fired the URL has a query key
\* exactly when the last input value is non-empty, and its value is that
\* input: no earlier query value survives.
C13_UrlFollowsLastInput ==
    Quiet =>
        /\ lastTyped # <<>> => QueryValues(location.search) = {lastTyped}
        /\ lastTyped = <<>> => QueryValues(location.search) = {}

(***************************************************************************)
(* The effects of the server actions.                                      *)
(***************************************************************************)
\* the positions of the calls of one kind in an invocation's effects
Positions(r, call) ==
    {i \in 1..Len(req[r].effects) : req[r].effects[i].call = call}

InvoicesPath == "/dashboard/invoices"

\* C14: in createInvoice and updateInvoice, revalidatePath and redirect are
\* called with exactly '/dashboard/invoices', only after the store call has
\* succeeded, and revalidatePath before redirect.
C14_InvalidateThenRedirectAfterSuccess ==
    \A r \in Reqs :
        req[r].op \in {"createInvoice", "updateInvoice"} =>
            LET e == req[r].effects
                inval == Positions(r, "revalidatePath")
                redir == Positions(r, "redirect")
            IN  /\ \A i \in inval \cup redir :
                      /\ e[i].arg = InvoicesPath
                      /\ \E j \in Positions(r, "resolved") : j < i
                      /\ Positions(r, "rejected") = {}
                /\ \A i \in inval, j \in redir : i < j
                /\ Cardinality(inval) <= 1 /\ Cardinality(redir) <= 1
                /\ req[r].revalidated = [k \in 1..Cardinality(inval) |-> InvoicesPath]
                /\ req[r].redirected = [k \in 1..Cardinality(redir) |-> InvoicesPath]
                /\ req[r].pc = "committed" => inval # {} /\ redir # {}

\* an updateInvoice committed: the UPDATE resolved, then the path was
\* revalidated, then the redirect
C14_Witness ==
    /\ req[1].op = "updateInvoice"
    /\ req[1].pc = "committed"
    /\ req[1].effects = <<Effect("sql", "UPDATE"), Effect("resolved", "sql"),
                          Effect("revalidatePath", InvoicesPath),
                          Effect("redirect", InvoicesPath)>>

\* C15: deleteInvoice never redirects; after a successful DELETE it
\* revalidates '/dashboard/invoices' once and does nothing else; after a
\* failed DELETE it neither revalidates nor redirects.
C15_DeleteRevalidatesOnly ==
    \A r \in Reqs :
        req[r].op = "deleteInvoice" =>
            /\ Positions(r, "redirect") = {}
            /\ req[r].redirected = <<>>
            /\ req[r].pc = "committed" =>
                   /\ req[r].effects =
                          <<Effect("sql", "DELETE"), Effect("resolved", "sql"),
                            Effect("revalidatePath", InvoicesPath)>>
                   /\ req[r].revalidated = <<InvoicesPath>>
                   /\ req[r].returned = <<>> /\ req[r].thrown = <<>>
            /\ req[r].pc # "committed" =>
                   /\ Positions(r, "revalidatePath") = {}
                   /\ req[r].revalidated = <<>>

\* a deleteInvoice whose DELETE succeeded
C15_Witness ==
    /\ req[1].op = "deleteInvoice"
    /\ req[1].pc = "committed"
    /\ req[1].revalidated = <<InvoicesPath>>
    /\ req[1].id \notin DOMAIN invoices

\* C16, as stated: every invocation makes exactly one store call, whatever
\* its input and its outcome.
C16_ExactlyOneStoreCall ==
    \A r \in Reqs :
        req[r].op # "none" =>
            /\ Cardinality(Positions(r, "sql")) = 1
            /\ req[r].storeCalls = 1

\* C16, amended: an invocation makes at most one store call: exactly one when
\* its input passes validation (always, for deleteInvoice) and none when
\* validation fails; a store call that failed is not made again.
C16_OneStoreCallAfterValidation ==
    \A r \in Reqs :
        req[r].op # "none" =>
            LET valid == \/ req[r].op = "deleteInvoice"
                         \/ ~FailsSchema(req[r].formData)
            IN  /\ Cardinality(Positions(r, "sql")) = (IF valid THEN 1 ELSE 0)
                /\ req[r].storeCalls = Cardinality(Positions(r, "sql"))
                /\ req[r].pc = "failed" =>
                       /\ Cardinality(Positions(r, "rejected")) = 1
                       /\ req[r].effects[Len(req[r].effects)].call = "rejected"

\* a createInvoice whose INSERT failed, the one store call it made
C16_Witness ==
    /\ req[1].op = "createInvoice"
    /\ req[1].pc = "failed"
    /\ req[1].storeCalls = 1
    /\ req[1].effects = <<Effect("sql", "INSERT"), Effect("rejected", "sql")>>

\* C17: what an action returns after a store failure is a constant of the
\* operation: whatever error the store call failed with, the returned value
\* is the same, so two runs with the same input that fail with different
\* errors return identical values and nothing of the error reaches the caller.
C17_FailureValueHidesError ==
    \A r \in Reqs :
        req[r].caught # <<>> =>
            /\ req[r].caught[1] \in StoreErrors
            /\ \A error \in StoreErrors :
                  /\ req[r].returned = <<DatabaseErrorOf(req[r].op)>>
                  /\ req[r].returned[1].message # error
            /\ DOMAIN req[r].returned[1] = {"message"}
            /\ req[r].thrown = <<>>

\* an updateInvoice whose UPDATE failed with the second of the store's errors
C17_Witness ==
    /\ req[1].op = "updateInvoice"
    /\ req[1].pc = "failed"
    /\ req[1].caught = <<"constraint violation">>
    /\ req[1].returned = <<UpdateInvoiceCatch>>

\* the date part of an instant of the clock
DateOnly(t) == <<Instants[t][1]>>

\* C18: createInvoice stamps the row it inserts with the date of the call,
\* date only, no time; updateInvoice sets no date and leaves the date column
\* of every row as it was.
C18_DateStampedOnCreateOnly ==
    /\ [](\A r \in Reqs :
            /\ (req[r].op = "createInvoice" /\ req[r].stmt # <<>>) =>
                   /\ req[r].stmt[1].date = DateOnly(req[r].at)
                   /\ Len(req[r].stmt[1].date) = 1
            /\ (req[r].op = "updateInvoice" /\ req[r].stmt # <<>>) =>
                   "date" \notin DOMAIN req[r].stmt[1])
    /\ [][\A r \in Reqs :
            (req[r].pc = "mutating" /\ req'[r].pc = "committed") =>
                /\ req[r].op = "createInvoice" =>
                       \E id \in DOMAIN invoices' \ DOMAIN invoices :
                           invoices'[id].date = DateOnly(req[r].at)
                /\ req[r].op = "updateInvoice" =>
                       /\ DOMAIN invoices' = DOMAIN invoices
                       /\ \A id \in DOMAIN invoices :
                              invoices'[id].date = invoices[id].date]_vars

\* a createInvoice called before midnight and committed after it: the row
\* has the date of the call
C18_Witness ==
    /\ req[1].op = "createInvoice"
    /\ req[1].pc = "committed"
    /\ req[1].at = 1 /\ now = 2
    /\ \E id \in DOMAIN invoices : invoices[id].date = <<"2023-10-30">>

(***************************************************************************)
(* The pipeline of an invocation.  Validation has no await, so Validating  *)
(* is inside the step that starts the invocation; an updateInvoice that    *)
(* ended with the ZodError thrown is a rejected one.                       *)
(***************************************************************************)
PhaseOf(pc) ==
    CASE pc = "idle"                  -> "Idle"
      [] pc \in {"rejected", "thrown"} -> "Rejected"
      [] pc = "mutating"              -> "Mutating"
      [] pc = "failed"                -> "Failed"
      [] pc = "committed"             -> "Committed"

Phase(r) == PhaseOf(req[r].pc)

\* C19: an invocation goes Idle -> Validating -> (Rejected | Mutating ->
\* (Failed | Committed)): Mutating is entered only by the step that starts an
\* invocation whose input passed validation, Rejected only by one whose
\* input failed it, a Mutating invocation goes on only to Failed or
\* Committed, and, the store call settling, it does; Failed and Committed are
\* entered only from Mutating.
C19_PipelinePhases ==
    /\ [](\A r \in Reqs :
            req[r].pc \in {"idle", "rejected", "thrown", "mutating",
                           "failed", "committed"})
    /\ [][\A r \in Reqs :
            req'[r] # req[r] =>
                /\ Phase(r) = "Mutating" => PhaseOf(req'[r].pc) \in {"Failed", "Committed"}
                /\ PhaseOf(req'[r].pc) \in {"Failed", "Committed"} => Phase(r) = "Mutating"
                /\ PhaseOf(req'[r].pc) = "Mutating" =>
                       /\ Phase(r) # "Mutating"
                       /\ \/ req'[r].op = "deleteInvoice"
                          \/ ~FailsSchema(req'[r].formData)
                /\ PhaseOf(req'[r].pc) = "Rejected" =>
                       /\ Phase(r) # "Mutating"
                       /\ req'[r].op # "deleteInvoice"
                       /\ FailsSchema(req'[r].formData)
                       /\ req'[r].effects = <<>>
                /\ PhaseOf(req'[r].pc) # "Idle"]_vars
    /\ \A r \in Reqs :
           (Phase(r) = "Mutating") ~> (Phase(r) \in {"Failed", "Committed"})

\* a createInvoice with valid input that went through Mutating to Committed
C19_Witness ==
    /\ req[1].op = "createInvoice"
    /\ Phase(1) = "Committed"
    /\ ~FailsSchema(req[1].formData)
    /\ req[1].effects[1] = Effect("sql", "INSERT")
    /\ Cardinality(DOMAIN invoices) = 2

(***************************************************************************)
(* What createInvoice returns.                                             *)
(***************************************************************************)
\* the invocation is a createInvoice that ended without a redirect
EndedWithoutRedirect(r) ==
    /\ req[r].op = "createInvoice"
    /\ req[r].pc # "mutating"
    /\ req[r].redirected = <<>>

\* C20, as stated: a createInvoice that does not end in a redirect returns an
\* object with both an errors mapping and a message, after a validation
\* failure and after a store failure alike.
C20_ErrorsAndMessageAlways ==
    \A r \in Reqs :
        EndedWithoutRedirect(r) =>
            /\ Len(req[r].returned) = 1
            /\ {"errors", "message"} \subseteq DOMAIN req[r].returned[1]
            /\ IsFieldErrors(req[r].returned[1].errors)

\* C20, amended: a createInvoice that does not end in a redirect returns an
\* object with a message string; after a validation failure the object also
\* has the errors mapping of the failing fields, after a store failure it has
\* the message and nothing else.
C20_MessageAlwaysErrorsOnRejection ==
    \A r \in Reqs :
        /\ EndedWithoutRedirect(r) =>
               /\ req[r].pc \in {"rejected", "failed"}
               /\ Len(req[r].returned) = 1
               /\ "message" \in DOMAIN req[r].returned[1]
               /\ req[r].returned[1].message \in
                      {"Missing Fields. Failed to Create Invoice.",
                       "Database Error: Failed to Create Invoice."}
               /\ req[r].pc = "rejected" =>
                      /\ DOMAIN req[r].returned[1] = {"errors", "message"}
                      /\ IsFieldErrors(req[r].returned[1].errors)
               /\ req[r].pc = "failed" =>
                      DOMAIN req[r].returned[1] = {"message"}
        /\ (req[r].op = "createInvoice" /\ req[r].redirected # <<>>) =>
               /\ req[r].pc = "committed"
               /\ req[r].returned = <<>>

\* a createInvoice with no status chosen was rejected with errors and message
C20_Witness ==
    /\ req[1].op = "createInvoice"
    /\ req[1].formData.status = Null
    /\ req[1].pc = "rejected"
    /\ DOMAIN req[1].returned[1].errors = {"status"}
    /\ req[1].returned[1].message = "Missing Fields. Failed to Create Invoice."

(***************************************************************************)
(* The invoices Page.                                                      *)
(***************************************************************************)
\* n is a positive integer
IsPositiveInteger(n) ==
    /\ n # NaN
    /\ ~n.neg
    /\ n.milli > 0
    /\ n.milli % Scale = 0
    /\ n.err = 0

\* C21: whatever the page parameter of the URL is (absent, empty, not a
\* number, zero, negative, fractional, a positive integer), the page number
\* the invoices Page derives from it is a positive integer, and it is 1 when
\* the parameter is absent.
C21_PageNumberPositiveInteger ==
    rendered # <<>> =>
        /\ IsPositiveInteger(rendered[1].currentPage)
        /\ ~Has(rendered[1].searchParams, <<"page">>) =>
               rendered[1].currentPage = Num(FALSE, Scale)

(***************************************************************************)
(* The authorized callback.                                                *)
(***************************************************************************)
\* the request the middleware handled is on a path that starts with
\* '/dashboard'
OnDashboard == visit[1].nextUrl.pathname[1] = "/dashboard"

LoggedIn == visit[1].auth # Null /\ visit[1].auth.user # Undefined

\* C22: authorized never authorizes a request of a user who is not logged in
\* to a path that starts with '/dashboard': it returns false, and the
\* middleware answers with a redirect to the sign-in page '/login'.
C22_DashboardDeniedWhenLoggedOut ==
    (visit # <<>> /\ visit[1].called /\ ~LoggedIn /\ OnDashboard) =>
        /\ visit[1].authorized = Denied
        /\ visit[1].response.kind = "redirect"
        /\ visit[1].response.url.pathname = <<"/login">>

\* a request without a session for /dashboard/invoices was denied
C22_Witness ==
    /\ visit # <<>>
    /\ visit[1].auth = Null
    /\ visit[1].nextUrl.pathname = <<"/dashboard", "/invoices">>
    /\ visit[1].called
    /\ visit[1].authorized = Denied

C29_NoRedirectLoop ==
    /\ [](visit # <<>> =>
            /\ visit[1].redirects <= 1
            /\ visit[1].redirects = 1 =>
                   /\ visit[1].called
                   /\ visit[1].authorized = Allowed
                   /\ visit[1].response = Allowed)
    /\ [][(visit # <<>> /\ visit' # <<>>
             /\ visit'[1].redirects = visit[1].redirects + 1) =>
                /\ visit'[1].auth = visit[1].auth
                /\ visit[1].response.kind = "redirect"
                /\ visit'[1].nextUrl = visit[1].response.url
                /\ visit'[1].nextUrl.pathname \in {<<"/login">>, <<"/dashboard">>}]_vars

\* a request without a session for /dashboard was sent to /login, which it
\* may see
C29_Witness ==
    /\ visit # <<>>
    /\ visit[1].auth = Null
    /\ visit[1].requested.pathname = <<"/dashboard">>
    /\ visit[1].nextUrl.pathname = <<"/login">>
    /\ visit[1].redirects = 1
    /\ visit[1].response = Allowed

(***************************************************************************)
(* The search field after a reload.                                        *)
(***************************************************************************)
\* C24: after a search update with term t has been applied to the URL and the
\* page is rendered again at that URL, the default value of the search input
\* is t, and undefined when t is empty: the applied term survives a reload.
C24_SearchRoundTrip ==
    lastClick # <<>> =>
        DefaultValue(location.search) =
            (IF lastClick[1].term = <<>> THEN Undefined
             ELSE Str(lastClick[1].term))

(***************************************************************************)
(* Validation in front of the store, and the rows it lets through.         *)
(***************************************************************************)
\* C25: updateInvoice never reaches the store with invalid input: when
\* customerId, amount or status fails the schema, no UPDATE is issued, no
\* path is revalidated, there is no redirect, and the table stays as it was.
C25_UpdateInvalidNoEffect ==
    /\ [](\A r \in Reqs :
            (req[r].op = "updateInvoice" /\ FailsSchema(req[r].formData)) =>
                /\ req[r].pc \notin {"mutating", "committed", "failed"}
                /\ NoEffect(req[r])
                /\ req[r].effects = <<>>)
    /\ [][\A r \in Reqs :
            (req'[r] # req[r] /\ req'[r].op = "updateInvoice"
               /\ FailsSchema(req'[r].formData)) => invoices' = invoices]_vars

\* an updateInvoice of row 1 with a status outside the enum ended without an
\* UPDATE
C25_Witness ==
    /\ req[1].op = "updateInvoice"
    /\ req[1].id = 1
    /\ req[1].formData.status = Str(<<"draft">>)
    /\ req[1].pc = "thrown"
    /\ req[1].effects = <<>>
    /\ invoices[1] = SeedRow

\* the status entry of a form is missing or is not 'pending' or 'paid'
StatusOutsideEnum(formData) ==
    \/ formData.status = Null
    \/ /\ formData.status # Null
       /\ formData.status.chars \notin {<<"pending">>, <<"paid">>}

\* C26: createInvoice rejects every status that is missing or is not one of
\* 'pending' and 'paid': the errors mapping it returns has an entry for
\* status, and no store call is made.
C26_StatusOutsideEnumRejected ==
    \A r \in Reqs :
        (req[r].op = "createInvoice" /\ StatusOutsideEnum(req[r].formData)) =>
            /\ req[r].pc = "rejected"
            /\ Len(req[r].returned) = 1
            /\ "errors" \in DOMAIN req[r].returned[1]
            /\ "status" \in DOMAIN req[r].returned[1].errors
            /\ Len(req[r].returned[1].errors["status"]) > 0
            /\ req[r].storeCalls = 0
            /\ Positions(r, "sql") = {}

\* a form with a customer, an amount and the status 'draft' was rejected for
\* its status alone
C26_Witness ==
    /\ req[1].op = "createInvoice"
    /\ req[1].formData.status = Str(<<"draft">>)
    /\ req[1].pc = "rejected"
    /\ DOMAIN req[1].returned[1].errors = {"status"}
    /\ req[1].storeCalls = 0

\* a row as the schema lets it into the table
ValidRow(row) ==
    /\ row.status \in {<<"pending">>, <<"paid">>}
    /\ row.amount.kind = "num" /\ ~row.amount.neg /\ row.amount.milli > 0
    /\ DOMAIN row.customer_id = 1..Len(row.customer_id)

C30_UnknownIdReportsSuccess ==
    [][\A r \in Reqs :
         (/\ req[r].op \in {"updateInvoice", "deleteInvoice"}
          /\ req[r].pc = "mutating"
          /\ req[r].id \notin DOMAIN invoices
          /\ req'[r] # req[r]
          /\ Positions(r, "rejected")' = {}) =>
             /\ invoices' = invoices
             /\ req'[r].pc = "committed"
             /\ req'[r].revalidated = <<"/dashboard/invoices">>
             /\ req'[r].redirected =
                    (IF req[r].op = "updateInvoice"
                     THEN <<"/dashboard/invoices">> ELSE <<>>)
             /\ req'[r].returned = <<>>
             /\ req'[r].thrown = <<>>]_vars

\* an updateInvoice of id 2, which no row has, committed
C30_Witness ==
    /\ req[1].op = "updateInvoice"
    /\ req[1].id = 2
    /\ req[1].pc = "committed"
    /\ req[1].redirected = <<"/dashboard/invoices">>
    /\ req[1].returned = <<>>
    /\ invoices = [i \in {1} |-> SeedRow]

(***************************************************************************)
(* Two updates of one row.                                                 *)
(***************************************************************************)
\* the fields of a row, or of a statement, that an UPDATE sets
Written(row) == <<row.customer_id, row.amount, row.status>>

\* both callers have committed an update of the row id
BothCommitted(id) ==
    \A r \in Reqs :
        /\ req[r].op = "updateInvoice"
        /\ req[r].pc = "committed"
        /\ req[r].id = id

\* C27: however two updateInvoice invocations on one id with different valid
\* inputs interleave, each makes a single UPDATE that writes its three
\* fields at once, so the row holds the customer_id, amount and status of
\* one of the inputs as a whole, never fields of both.
C27_UpdatesDoNotMix ==
    /\ [](\A id \in DOMAIN invoices :
            /\ \/ Written(invoices[id]) = Written(SeedRow)
               \/ \E f \in PairForms :
                     /\ invoices[id].customer_id = f.customerId.chars
                     /\ invoices[id].status = f.status.chars
                     /\ invoices[id].amount = AmountInCents(ToNumber(f.amount))
            /\ BothCommitted(id) =>
                   \E r \in Reqs : Written(invoices[id]) = Written(req[r].stmt[1]))
    /\ [](\A r \in Reqs : Cardinality(Positions(r, "sql")) <= 1)
    /\ [][\A r \in Reqs :
            (req[r].pc = "mutating" /\ req'[r].pc = "committed") =>
                /\ DOMAIN invoices' = DOMAIN invoices
                /\ \A id \in DOMAIN invoices :
                       IF id = req[r].id
                       THEN Written(invoices'[id]) = Written(req[r].stmt[1])
                       ELSE invoices'[id] = invoices[id]]_vars

\* the two callers updated row 1 with forms that differ in every field, the
\* second UPDATE to commit being the first caller's
C27_Witness ==
    /\ BothCommitted(1)
    /\ req[1].stmt[1].customer_id # req[2].stmt[1].customer_id
    /\ req[1].stmt[1].amount # req[2].stmt[1].amount
    /\ req[1].stmt[1].status # req[2].stmt[1].status
    /\ Written(invoices[1]) = Written(req[1].stmt[1])


====
